---- MODULE Spec2Model ----
(***************************************************************************)
(* Model of DocumentProcessor (src/document_processor.py): the            *)
(* consolidation engine (Spec), the response parser with its sanitizer and *)
(* normalizer (ParserSpec), and process_files with the extraction of the   *)
(* text, the AI clients and the answer of upload_files (RunSpec); of       *)
(* AIProviderManager and Config (ConfigSpec); and of the temporary folder  *)
(* with the upload, report and cleanup requests of two sessions            *)
(* (SessionSpec).                                                          *)
(*                                                                         *)
(* Strings that the code inspects character by character (descricao,      *)
(* fonte) are sequences of one-character strings; codigo and referencia    *)
(* are only tested for emptiness and equality and stay plain strings.      *)
(*                                                                         *)
(* Numbers: the code works on Python floats.  quantidade and valor_total   *)
(* are only ever added, so they are integers here; valor_unitario is the   *)
(* only field the code produces by a division, so it is an exact fraction  *)
(* [num, den] in lowest terms.  The rounding of IEEE-754 doubles is not    *)
(* represented: every equality below is an equality of exact values.       *)
(***************************************************************************)
EXTENDS Integers, Sequences, FiniteSets, TLC

VARIABLES all_products, consolidated_products, second, split, pc,
          ai_response, cleaned_response, parsed_products,
          file_paths, next_file, processing_info, ai_calls, results,
          upload_response, ai_client, ocr_calls,
          AI_MODELS, ADDITIONAL_MODELS, managers, models,
          temp_folder, sessions

\* the state of one call of _parse_ai_response
parser_vars == <<ai_response, cleaned_response, parsed_products>>

\* the state of one call of process_files, next to all_products and
\* consolidated_products
run_vars ==
  <<file_paths, next_file, processing_info, ai_calls, results, upload_response,
    ai_client, ocr_calls>>

\* Config.AI_MODELS, the ADDITIONAL_MODELS setting and the managers built
config_vars == <<AI_MODELS, ADDITIONAL_MODELS, managers, models>>

\* the temporary folder of the application and the sessions using it
session_vars == <<temp_folder, sessions>>

vars == <<all_products, consolidated_products, second, split, pc,
          ai_response, cleaned_response, parsed_products,
          file_paths, next_file, processing_info, ai_calls, results,
          upload_response, ai_client, ocr_calls,
          AI_MODELS, ADDITIONAL_MODELS, managers, models,
          temp_folder, sessions>>

(***************************************************************************)
(* Bounds                                                                  *)
(***************************************************************************)
MaxProducts == 3

(***************************************************************************)
(* Characters and Python str operations                                    *)
(***************************************************************************)
\* ord(c): the code point Python's str comparison uses
Ord(c) ==
  CASE c = " " -> 32
    [] c = "!" -> 33
    [] c = "," -> 44
    [] c = "A" -> 65
    [] c = "B" -> 66
    [] c = "a" -> 97
    [] c = "b" -> 98

\* str.lower() on one character
LowerChar(c) ==
  CASE c = "A" -> "a"
    [] c = "B" -> "b"
    [] OTHER -> c

\* \s of the regular expressions
IsSpace(c) == c = " "

\* \w of the regular expressions
IsWord(c) == c \in {"A", "B", "a", "b"}

\* str.lower()
Lower(s) == [i \in 1..Len(s) |-> LowerChar(s[i])]

RECURSIVE LStrip(_)
LStrip(s) ==
  IF s # <<>> /\ IsSpace(Head(s)) THEN LStrip(Tail(s)) ELSE s

RECURSIVE RStrip(_)
RStrip(s) ==
  IF s # <<>> /\ IsSpace(s[Len(s)]) THEN RStrip(SubSeq(s, 1, Len(s) - 1)) ELSE s

\* str.strip()
Strip(s) == RStrip(LStrip(s))

\* re.sub(r'[^\w\s]', '', desc)
RemovePunctuation(s) == SelectSeq(s, LAMBDA c : IsWord(c) \/ IsSpace(c))

\* re.sub(r'\s+', ' ', desc): every maximal run of whitespace becomes one space
RECURSIVE CollapseWhitespace(_)
CollapseWhitespace(s) ==
  IF s = <<>> THEN <<>>
  ELSE IF IsSpace(Head(s))
       THEN <<" ">> \o CollapseWhitespace(LStrip(s))
       ELSE <<Head(s)>> \o CollapseWhitespace(Tail(s))

\* Python's `a < b` on str: lexicographic by code point
RECURSIVE StrLess(_, _)
StrLess(s, t) ==
  IF t = <<>> THEN FALSE
  ELSE IF s = <<>> THEN TRUE
  ELSE IF Ord(Head(s)) < Ord(Head(t)) THEN TRUE
  ELSE IF Ord(Head(s)) > Ord(Head(t)) THEN FALSE
  ELSE StrLess(Tail(s), Tail(t))

\* Python's `sub in s` on str: sub occurs as a contiguous substring of s
Contains(s, sub) ==
  \E i \in 1..(Len(s) + 1) :
     /\ i + Len(sub) - 1 <= Len(s)
     /\ SubSeq(s, i, i + Len(sub) - 1) = sub

(***************************************************************************)
(* Exact fractions for valor_unitario                                      *)
(***************************************************************************)
Abs(n) == IF n < 0 THEN -n ELSE n

RECURSIVE Gcd(_, _)
Gcd(a, b) == IF b = 0 THEN a ELSE Gcd(b, a % b)

\* the value n / d, d > 0, in lowest terms
Fraction(n, d) ==
  LET g == Gcd(Abs(n), d)
  IN  [num |-> n \div g, den |-> d \div g]

\* Python's `valor_total / quantidade`, only evaluated when quantidade > 0
Divide(valor_total, quantidade) == Fraction(valor_total, quantidade)

(***************************************************************************)
(* _generate_product_key                                                   *)
(***************************************************************************)
\* The key is a Python string "codigo_<c>", "ref_<r>" or "desc_<d>".  The three
\* prefixes differ in their first character, so the string is determined by,
\* and determines, the pair <<prefix, rest>>.
_generate_product_key_ref_first(product) ==
  IF product.referencia # ""
    THEN <<"ref_", product.referencia>>
    ELSE IF product.codigo # ""
      THEN <<"codigo_", product.codigo>>
      ELSE <<"desc_",
             CollapseWhitespace(RemovePunctuation(Strip(Lower(product.descricao))))>>

_generate_product_key(product) ==
  IF product.codigo # ""
    THEN <<"codigo_", product.codigo>>
    ELSE IF product.referencia # ""
      THEN <<"ref_", product.referencia>>
      ELSE <<"desc_",
             CollapseWhitespace(RemovePunctuation(Strip(Lower(product.descricao))))>>

(***************************************************************************)
(* sorted(..., key=lambda x: x['descricao'])                               *)
(***************************************************************************)
\* order with index i inserted before the first index whose key is strictly
\* greater: equal keys keep their input order (Python's sort is stable)
InsertIndex(order, i, keys) ==
  LET greater == {p \in 1..Len(order) : StrLess(keys[i], keys[order[p]])}
      pos == IF greater = {} THEN Len(order) + 1
             ELSE CHOOSE p \in greater : \A r \in greater : p <= r
  IN  SubSeq(order, 1, pos - 1) \o <<i>> \o SubSeq(order, pos, Len(order))

\* the indices 1..n in ascending order of keys, stable
RECURSIVE StableOrder(_, _)
StableOrder(keys, n) ==
  IF n = 0 THEN <<>> ELSE InsertIndex(StableOrder(keys, n - 1), n, keys)

\* sorted(values, key=...) for the sequence `keys` of the values' sort keys
SortedByKeys(values, keys) ==
  LET order == StableOrder(keys, Len(values))
  IN  [i \in 1..Len(values) |-> values[order[i]]]

Reverse(s) == [i \in 1..Len(s) |-> s[Len(s) + 1 - i]]

\* (variant) a sort that is not stable: equal descriptions come out reversed
SortByDescricao_TiesReversed(values) ==
  LET r == Reverse(values)
  IN  SortedByKeys(r, [i \in 1..Len(r) |-> r[i].descricao])

\* (variant) key=lambda x: x['descricao'].lower()
SortByDescricao_CaseInsensitive(values) ==
  SortedByKeys(values, [i \in 1..Len(values) |-> Lower(values[i].descricao)])

\* sorted(consolidated.values(), key=lambda x: x['descricao'])
SortByDescricao(values) ==
  SortedByKeys(values, [i \in 1..Len(values) |-> values[i].descricao])

(***************************************************************************)
(* _consolidate_products: the merge of a duplicate                         *)
(***************************************************************************)
\* (variant) `=` in place of `+=`
MergedQuantidade_Overwritten(existing, product) == product.quantidade

\* existing['quantidade'] += product['quantidade']
MergedQuantidade(existing, product) ==
  existing.quantidade + product.quantidade

\* (variant) `=` in place of `+=`
MergedValorTotal_Overwritten(existing, product) == product.valor_total

\* existing['valor_total'] += product['valor_total']
MergedValorTotal(existing, product) ==
  existing.valor_total + product.valor_total

\* (variant) the unit price of the first record is kept
MergedValorUnitario_Kept(existing, quantidade, valor_total) ==
  existing.valor_unitario

\* if existing['quantidade'] > 0:
\*     existing['valor_unitario'] = existing['valor_total'] / existing['quantidade']
\* evaluated on the sums already stored in existing
MergedValorUnitario(existing, quantidade, valor_total) ==
  IF quantidade > 0
    THEN Divide(valor_total, quantidade)
    ELSE existing.valor_unitario

\* if product['fonte'] not in existing['fonte']:
\*     existing['fonte'] += f", {product['fonte']}"
\* `in` on two str is the substring test
MergedFonte(existing, product) ==
  IF ~Contains(existing.fonte, product.fonte)
    THEN existing.fonte \o <<",", " ">> \o product.fonte
    ELSE existing.fonte

\* (variant) the duplicate is dropped, the first record is kept as it is
MergeDuplicate_Dropped(existing, product) == existing

\* the body of `if key in consolidated:`
MergeDuplicate(existing, product) ==
  LET quantidade == MergedQuantidade(existing, product)
      valor_total == MergedValorTotal(existing, product)
  IN  [existing EXCEPT
         !.quantidade = quantidade,
         !.valor_total = valor_total,
         !.valor_unitario = MergedValorUnitario(existing, quantidade, valor_total),
         !.fonte = MergedFonte(existing, product)]

(***************************************************************************)
(* _consolidate_products: the loop over the products                       *)
(***************************************************************************)
\* `consolidated` is a dict, which keeps its keys in insertion order: a
\* sequence of entries [key, value] with pairwise distinct keys.
KeyIndex(consolidated, key) ==
  {i \in 1..Len(consolidated) : consolidated[i].key = key}

\* (variant) a map that does not keep insertion order: new keys go first
ConsolidateOne_Prepending(consolidated, product) ==
  LET key == _generate_product_key(product)
      at == KeyIndex(consolidated, key)
  IN  IF at # {}
        THEN LET i == CHOOSE i \in at : TRUE
             IN  [consolidated EXCEPT ![i].value = MergeDuplicate(@, product)]
        ELSE <<[key |-> key, value |-> product]>> \o consolidated

\* one iteration of `for product in products:`
ConsolidateOne(consolidated, product) ==
  LET key == _generate_product_key(product)
      at == KeyIndex(consolidated, key)
  IN  IF at # {}
        THEN LET i == CHOOSE i \in at : TRUE
             IN  [consolidated EXCEPT ![i].value = MergeDuplicate(@, product)]
        ELSE Append(consolidated, [key |-> key, value |-> product])

RECURSIVE ConsolidateLoop(_, _)
ConsolidateLoop(consolidated, products) ==
  IF products = <<>> THEN consolidated
  ELSE ConsolidateLoop(ConsolidateOne(consolidated, Head(products)), Tail(products))

\* consolidated.values()
Values(consolidated) == [i \in 1..Len(consolidated) |-> consolidated[i].value]

_consolidate_products(products) ==
  SortByDescricao(Values(ConsolidateLoop(<<>>, products)))

(***************************************************************************)
(* _consolidate_products on the objects.  A dict is an object that several *)
(* names can refer to: the heap is a sequence of dicts and an address is   *)
(* an index of it.  The list `products` holds the addresses 1..n of the    *)
(* dicts it was called with; `consolidated` maps a key to the address of   *)
(* a dict, which the merge of a duplicate changes in place.                *)
(***************************************************************************)
\* (variant) consolidated[key] = product: the dict of the input is stored
StoreFirst_WithoutCopy(heap, address) == [heap |-> heap, address |-> address]

\* consolidated[key] = product.copy(): a new dict with the fields of product
StoreFirst(heap, address) ==
  [heap |-> Append(heap, heap[address]), address |-> Len(heap) + 1]

\* one iteration of `for product in products:` on the objects
ConsolidateOneOnHeap(state, address) ==
  LET product == state.heap[address]
      key == _generate_product_key(product)
      at == KeyIndex(state.consolidated, key)
  IN  IF at # {}
        THEN LET existing == state.consolidated[CHOOSE i \in at : TRUE].value
             IN  [state EXCEPT !.heap[existing] = MergeDuplicate(@, product)]
        ELSE LET stored == StoreFirst(state.heap, address)
             IN  [heap |-> stored.heap,
                  consolidated |->
                    Append(state.consolidated,
                           [key |-> key, value |-> stored.address])]

RECURSIVE ConsolidateLoopOnHeap(_, _, _)
ConsolidateLoopOnHeap(state, address, last) ==
  IF address > last THEN state
  ELSE ConsolidateLoopOnHeap(ConsolidateOneOnHeap(state, address),
                             address + 1, last)

\* the objects and the dict `consolidated` when the loop has ended
AfterLoop(products) ==
  ConsolidateLoopOnHeap([heap |-> products, consolidated |-> <<>>],
                        1, Len(products))

\* the dicts of the list `products` when _consolidate_products has returned
InputAfter(products) == SubSeq(AfterLoop(products).heap, 1, Len(products))

\* the dicts `consolidated` refers to, in the order of its keys
ValuesOnHeap(products) ==
  LET after == AfterLoop(products)
  IN  [i \in 1..Len(after.consolidated) |->
         after.heap[after.consolidated[i].value]]

(***************************************************************************)
(* The normalized records handed to _consolidate_products                  *)
(***************************************************************************)
\* the dict _normalize_product_data returns; valor_unitario is given as a
\* whole number here and becomes a fraction only by the merge
Product(codigo, referencia, descricao, numbers, fonte) ==
  [codigo |-> codigo,
   referencia |-> referencia,
   descricao |-> descricao,
   quantidade |-> numbers[1],
   valor_unitario |-> Fraction(numbers[2], 1),
   valor_total |-> numbers[3],
   fonte |-> fonte]

\* "a b", "A  b", "B", "a!": already stripped, as the normalizer leaves them
Descricoes ==
  {<<"a", " ", "b">>, <<"A", " ", " ", "b">>, <<"B">>, <<"a", "!">>}

\* <<codigo, referencia, descricao>>: every descricao without codigo and
\* referencia, and a codigo alone, a codigo with a referencia, a referencia alone
Identities ==
  {<<"", "", d>> : d \in Descricoes}
  \cup {<<"P1", "", <<"a", " ", "b">>>>,
        <<"P1", "R1", <<"B">>>>,
        <<"", "R1", <<"a", " ", "b">>>>}

\* <<quantidade, valor_unitario, valor_total>>: consistent ones, a supplied
\* total without quantity or price, a price without quantity, and a negative
\* quantity (a JSON number is taken as it is)
Numbers ==
  {<<1, 2, 2>>, <<2, 2, 4>>, <<1, 3, 3>>, <<0, 0, 100>>, <<0, 2, 0>>, <<-1, 2, -2>>}

\* file names "a", "aa", "b" (os.path.basename of the source file)
Fontes == {<<"a">>, <<"a", "a">>, <<"b">>}

DefaultNumbers == <<1, 2, 2>>

DefaultFonte == <<"a">>

\* the identity whose numbers vary
NumberedIdentity == <<"", "", <<"B">>>>

\* the identities whose file names vary
SourcedIdentities == {<<"", "", <<"B">>>>, <<"P1", "", <<"a", " ", "b">>>>}

Records ==
  {Product(id[1], id[2], id[3], DefaultNumbers, DefaultFonte) : id \in Identities}
  \cup {Product(NumberedIdentity[1], NumberedIdentity[2], NumberedIdentity[3],
                n, DefaultFonte) : n \in Numbers}
  \cup {Product(id[1], id[2], id[3], DefaultNumbers, f) :
          id \in SourcedIdentities, f \in Fontes}

\* the lists all_products can hold when the loop over the files has ended
ProductLists == UNION {[1..n -> Records] : n \in 0..MaxProducts}

(***************************************************************************)
(* State machine of the consolidation                                      *)
(***************************************************************************)
\* a variable the running operation does not use
NoValue == "-"

\* no manager is built and no session runs
ConfigIdle ==
  /\ AI_MODELS = NoValue
  /\ ADDITIONAL_MODELS = NoValue
  /\ managers = <<>>
  /\ models = NoValue

SessionIdle ==
  /\ temp_folder = {}
  /\ sessions = <<>>

\* no file is being processed
ClientIdle ==
  /\ ai_client = NoValue
  /\ ocr_calls = 0

Init ==
  /\ all_products \in ProductLists
  /\ consolidated_products = <<>>
  /\ second = <<>>
  /\ split = 0
  /\ pc = "collected"
  /\ ai_response = NoValue
  /\ cleaned_response = NoValue
  /\ parsed_products = NoValue
  /\ file_paths = <<>>
  /\ next_file = 0
  /\ processing_info = NoValue
  /\ ai_calls = 0
  /\ results = <<>>
  /\ upload_response = 0
  /\ ClientIdle
  /\ ConfigIdle
  /\ SessionIdle

\* process_files: consolidated_products = self._consolidate_products(all_products)
Consolidate ==
  /\ pc = "collected"
  /\ consolidated_products' = _consolidate_products(all_products)
  /\ all_products' = InputAfter(all_products)
  /\ pc' = "consolidated"
  /\ UNCHANGED <<second, split>>
  /\ UNCHANGED <<parser_vars, run_vars, config_vars, session_vars>>

\* _consolidate_products applied to its own result
Reconsolidate ==
  /\ pc = "consolidated"
  /\ second' = _consolidate_products(consolidated_products)
  /\ pc' = "reconsolidated"
  /\ UNCHANGED <<all_products, consolidated_products, split>>
  /\ UNCHANGED <<parser_vars, run_vars, config_vars, session_vars>>

\* _consolidate_products applied to the first k products, then to that result
\* followed by the remaining products
ConsolidateIncrementally(k) ==
  /\ pc = "consolidated"
  /\ LET n == Len(all_products)
         first == _consolidate_products(SubSeq(all_products, 1, k))
     IN  second' = _consolidate_products(first \o SubSeq(all_products, k + 1, n))
  /\ split' = k
  /\ pc' = "incremental"
  /\ UNCHANGED <<all_products, consolidated_products>>
  /\ UNCHANGED <<parser_vars, run_vars, config_vars, session_vars>>

\* _consolidate_products applied to the same products in another order
ConsolidatePermuted(p) ==
  /\ pc = "consolidated"
  /\ second' = _consolidate_products([i \in 1..Len(all_products) |-> all_products[p[i]]])
  /\ pc' = "permuted"
  /\ UNCHANGED <<all_products, consolidated_products, split>>
  /\ UNCHANGED <<parser_vars, run_vars, config_vars, session_vars>>

Next ==
  \/ Consolidate
  \/ Reconsolidate
  \/ \E k \in 0..Len(all_products) : ConsolidateIncrementally(k)
  \/ \E p \in Permutations(1..Len(all_products)) : ConsolidatePermuted(p)

Spec == Init /\ [][Next]_vars

(***************************************************************************)
(* JSON values and Python floats of the parser                             *)
(*                                                                         *)
(* A value json.loads can put under a key of a product object is a record  *)
(* [kind, number, string]: kind is "absent" (the key is missing), "null",  *)
(* "number", "bool", "string" or "list"; number is an exact fraction and   *)
(* string a sequence of characters.  The floats the normalizer computes    *)
(* are exact fractions [num, den] with den > 0.                            *)
(***************************************************************************)
Zero == Fraction(0, 1)

Absent == [kind |-> "absent", number |-> Zero, string |-> <<>>]

JsonNull == [kind |-> "null", number |-> Zero, string |-> <<>>]

JsonNumber(n, d) == [kind |-> "number", number |-> Fraction(n, d), string |-> <<>>]

\* True is 1 and False is 0, as bool is a subclass of int
JsonBool(b) ==
  [kind |-> "bool", number |-> Fraction(IF b THEN 1 ELSE 0, 1), string |-> <<>>]

JsonString(s) == [kind |-> "string", number |-> Zero, string |-> s]

\* a non-empty JSON array: neither a number nor a str, and truthy
JsonList == [kind |-> "list", number |-> Zero, string |-> <<>>]

\* Python's truth value of a JSON value, as `x or ''` tests it
Truthy(value) ==
  CASE value.kind \in {"number", "bool"} -> value.number.num # 0
    [] value.kind = "string" -> value.string # <<>>
    [] value.kind = "list" -> TRUE
    [] OTHER -> FALSE

\* Python's a * b and a / b on floats, the latter only evaluated for b > 0
Times(a, b) == Fraction(a.num * b.num, a.den * b.den)

Over(a, b) == Fraction(a.num * b.den, a.den * b.num)

(***************************************************************************)
(* _parse_numeric_value                                                    *)
(***************************************************************************)
\* \d of the regular expressions
IsDigit(c) == c \in {"0", "1", "2", "3", "4", "5", "6", "7", "8", "9"}

DigitValue(c) ==
  CASE c = "0" -> 0 [] c = "1" -> 1 [] c = "2" -> 2 [] c = "3" -> 3
    [] c = "4" -> 4 [] c = "5" -> 5 [] c = "6" -> 6 [] c = "7" -> 7
    [] c = "8" -> 8 [] c = "9" -> 9

\* the integer a string of digits denotes: float(cleaned)
RECURSIVE DigitsValue(_)
DigitsValue(s) ==
  IF s = <<>> THEN 0
  ELSE 10 * DigitsValue(SubSeq(s, 1, Len(s) - 1)) + DigitValue(s[Len(s)])

\* re.sub(r'[R$\s,.]', '', value)
RemoveCurrencyMarks(s) ==
  SelectSeq(s, LAMBDA c : ~(c \in {"R", "$", ",", "."} \/ IsSpace(c)))

\* re.sub(r'[^\d]', '', cleaned)
KeepDigits(s) == SelectSeq(s, IsDigit)

_parse_numeric_value(value) ==
  CASE value.kind \in {"number", "bool"} -> value.number
    [] value.kind = "string" ->
         LET cleaned == KeepDigits(RemoveCurrencyMarks(value.string))
         IN  IF cleaned = <<>> THEN Zero
             ELSE Fraction(DigitsValue(cleaned), 100)
    [] OTHER -> Zero

(***************************************************************************)
(* _normalize_product_data                                                 *)
(*                                                                         *)
(* An element of the 'produtos' list is a record with a field is_dict and  *)
(* one JSON value per key the normalizer reads.  The result is a sequence: *)
(* <<>> for None, <<record>> for the normalized dict.                      *)
(***************************************************************************)
\* os.path.basename(source_file): what follows the last "/"
RECURSIVE Basename(_)
Basename(path) ==
  IF \E i \in 1..Len(path) : path[i] = "/" THEN Basename(Tail(path)) ELSE path

\* `product_data.get(key) or ''`
OrEmpty(value) == IF Truthy(value) THEN value ELSE JsonString(<<>>)

\* the three numbers after "Calculate missing values", which leaves the
\* numbers as they were parsed
DeriveMissing_Never(quantidade, valor_unitario, valor_total) ==
  <<quantidade, valor_unitario, valor_total>>

\* the three numbers after "Calculate missing values"
DeriveMissing(quantidade, valor_unitario, valor_total) ==
  IF valor_total.num = 0 /\ quantidade.num > 0 /\ valor_unitario.num > 0
  THEN <<quantidade, valor_unitario, Times(quantidade, valor_unitario)>>
  ELSE IF valor_unitario.num = 0 /\ quantidade.num > 0 /\ valor_total.num > 0
       THEN <<quantidade, Over(valor_total, quantidade), valor_total>>
       ELSE <<quantidade, valor_unitario, valor_total>>

\* the normalizer that accepts a blank descricao
_normalize_product_data_keeps_blank(product_data, source_file) ==
  LET codigo == OrEmpty(product_data.codigo)
      referencia == OrEmpty(product_data.referencia)
      descricao == OrEmpty(product_data.descricao)
      numbers == DeriveMissing(_parse_numeric_value(product_data.quantidade),
                               _parse_numeric_value(product_data.valor_unitario),
                               _parse_numeric_value(product_data.valor_total))
  IN  IF ~product_data.is_dict THEN <<>>
      ELSE IF descricao.kind # "string" THEN <<>>
      ELSE IF codigo.kind # "string" \/ referencia.kind # "string" THEN <<>>
      ELSE <<[codigo |-> Strip(codigo.string),
              referencia |-> Strip(referencia.string),
              descricao |-> Strip(descricao.string),
              quantidade |-> numbers[1],
              valor_unitario |-> numbers[2],
              valor_total |-> numbers[3],
              fonte |-> Basename(source_file)]>>

_normalize_product_data(product_data, source_file) ==
  LET codigo == OrEmpty(product_data.codigo)
      referencia == OrEmpty(product_data.referencia)
      descricao == OrEmpty(product_data.descricao)
      numbers == DeriveMissing(_parse_numeric_value(product_data.quantidade),
                               _parse_numeric_value(product_data.valor_unitario),
                               _parse_numeric_value(product_data.valor_total))
  IN  \* a list element that is no dict has no .get: AttributeError, None
      IF ~product_data.is_dict THEN <<>>
      \* descricao.strip() on a value that is no str: AttributeError, None
      ELSE IF descricao.kind # "string" THEN <<>>
      \* if not descricao.strip(): return None
      ELSE IF Strip(descricao.string) = <<>> THEN <<>>
      \* codigo.strip(), referencia.strip() on a value that is no str
      ELSE IF codigo.kind # "string" \/ referencia.kind # "string" THEN <<>>
      ELSE <<[codigo |-> Strip(codigo.string),
              referencia |-> Strip(referencia.string),
              descricao |-> Strip(descricao.string),
              quantidade |-> numbers[1],
              valor_unitario |-> numbers[2],
              valor_total |-> numbers[3],
              fonte |-> Basename(source_file)]>>

(***************************************************************************)
(* _clean_json_response                                                    *)
(*                                                                         *)
(* The response text is a sequence of characters.  Three of them stand for *)
(* a whole member of a JSON object: "P" for "produtos": [ ... ] (the list  *)
(* itself is the field produtos of the response), "E" for "produtos": [],  *)
(* "L" for "produtos": 1 and "Q" for "x": 1.  They occur only between the  *)
(* braces of an object, so the braces and quotes they hide are never the   *)
(* first '{' or the last '}' of a text and hold no backtick.  A member     *)
(* with a string value, "x": "...", is written q...q, the characters of    *)
(* the string between the two "q".  The character "'" stands for the       *)
(* backtick, which a TLA+ string cannot hold.                              *)
(***************************************************************************)
IsPrefixAt(s, i, prefix) ==
  /\ i + Len(prefix) - 1 <= Len(s)
  /\ SubSeq(s, i, i + Len(prefix) - 1) = prefix

\* re.sub(marker + r'\s*', '', s): every leftmost non-overlapping occurrence
\* of the marker goes, with all the whitespace that follows it
RECURSIVE RemoveMarker(_, _)
RemoveMarker(s, marker) ==
  IF s = <<>> THEN <<>>
  ELSE IF IsPrefixAt(s, 1, marker)
       THEN RemoveMarker(LStrip(SubSeq(s, Len(marker) + 1, Len(s))), marker)
       ELSE <<Head(s)>> \o RemoveMarker(Tail(s), marker)

JsonFence == <<"'", "'", "'", "j", "s", "o", "n">>

Fence == <<"'", "'", "'">>

\* re.search(r'\{.*\}', response, re.DOTALL): from the first '{' to the last
\* '}' behind it; <<>> when there is no match (a match has two characters at
\* least)
BraceSpan(s) ==
  LET opens == {i \in 1..Len(s) : s[i] = "{"}
      closes == {i \in 1..Len(s) : s[i] = "}"}
  IN  IF opens = {} \/ closes = {} THEN <<>>
      ELSE LET first == CHOOSE i \in opens : \A j \in opens : i <= j
               last == CHOOSE i \in closes : \A j \in closes : j <= i
           IN  IF first < last THEN SubSeq(s, first, last) ELSE <<>>

\* '{"produtos": []}', the text test_final.py expects for error content
EmptyResult == <<"{", "E", "}">>

\* the sanitizer that removes the fences and searches no span
_clean_json_response_unfenced_only(response) ==
  RemoveMarker(RemoveMarker(response, JsonFence), Fence)

_clean_json_response(response) ==
  LET unfenced == RemoveMarker(RemoveMarker(response, JsonFence), Fence)
      span == BraceSpan(unfenced)
  IN  IF span # <<>> THEN span ELSE unfenced

(***************************************************************************)
(* json.loads and _parse_ai_response                                       *)
(***************************************************************************)
\* the texts between the commas of s
RECURSIVE SplitAtCommas(_)
SplitAtCommas(s) ==
  LET commas == {i \in 1..Len(s) : s[i] = ","}
  IN  IF commas = {} THEN <<s>>
      ELSE LET i == CHOOSE i \in commas : \A j \in commas : i <= j
           IN  <<SubSeq(s, 1, i - 1)>> \o SplitAtCommas(SubSeq(s, i + 1, Len(s)))

IsMember(s) ==
  \/ s \in {<<"P">>, <<"E">>, <<"L">>, <<"Q">>}
  \/ /\ Len(s) >= 2
     /\ s[1] = "q"
     /\ s[Len(s)] = "q"
     /\ \A i \in 2..(Len(s) - 1) : s[i] \notin {"q", ",", "{", "}"}

\* the kind of the value the key 'produtos' has after the members in order,
\* a later member replacing an earlier one of the same key
RECURSIVE ProdutosKind(_)
ProdutosKind(members) ==
  IF members = <<>> THEN "absent"
  ELSE LET last == members[Len(members)]
       IN  CASE last = <<"P">> -> "list"
             [] last = <<"E">> -> "empty list"
             [] last = <<"L">> -> "number"
             [] OTHER -> ProdutosKind(SubSeq(members, 1, Len(members) - 1))

\* json.loads(text): [error, type, produtos]; error is TRUE for a
\* JSONDecodeError, type is "dict" or "number", produtos the kind of
\* data['produtos'].  In the alphabet of the texts the JSON documents are the
\* numbers in digits and the objects of members.
JsonLoads(text) ==
  LET body == Strip(text)
      inner == Strip(SubSeq(body, 2, Len(body) - 1))
      members == [i \in 1..Len(SplitAtCommas(inner)) |-> Strip(SplitAtCommas(inner)[i])]
      Invalid == [error |-> TRUE, type |-> "", produtos |-> "absent"]
  IN  IF body = <<>> THEN Invalid
      ELSE IF \A i \in 1..Len(body) : IsDigit(body[i])
      THEN IF Len(body) > 1 /\ body[1] = "0" THEN Invalid
           ELSE [error |-> FALSE, type |-> "number", produtos |-> "absent"]
      ELSE IF Len(body) >= 2 /\ body[1] = "{" /\ body[Len(body)] = "}"
      THEN IF inner = <<>>
           THEN [error |-> FALSE, type |-> "dict", produtos |-> "absent"]
           ELSE IF \A i \in 1..Len(members) : IsMember(members[i])
                THEN [error |-> FALSE, type |-> "dict",
                      produtos |-> ProdutosKind(members)]
                ELSE Invalid
      ELSE Invalid

\* for product_data in data['produtos']: normalize, append what is not None
RECURSIVE NormalizeAll(_, _)
NormalizeAll(produtos, source_file) ==
  IF produtos = <<>> THEN <<>>
  ELSE _normalize_product_data(Head(produtos), source_file)
       \o NormalizeAll(Tail(produtos), source_file)

\* the body of the try block: [raised, value], raised being "" or the name
\* of the exception that leaves the block.  A response that is no str makes
\* re.sub raise TypeError; data that is no dict makes `'produtos' in data`
\* raise TypeError.
ParseBody(response, source_file) ==
  LET data == JsonLoads(_clean_json_response(response.text))
  IN  IF response.kind # "string" THEN [raised |-> "TypeError", value |-> <<>>]
      ELSE IF data.error THEN [raised |-> "JSONDecodeError", value |-> <<>>]
      ELSE IF data.type # "dict" THEN [raised |-> "TypeError", value |-> <<>>]
      ELSE IF data.produtos = "list"
           THEN [raised |-> "", value |-> NormalizeAll(response.produtos, source_file)]
           ELSE [raised |-> "", value |-> <<>>]

\* the parser whose only except clause is the one for json.JSONDecodeError
_parse_ai_response_decode_errors_only(response, source_file) ==
  LET body == ParseBody(response, source_file)
  IN  IF body.raised = "JSONDecodeError" THEN [raised |-> "", value |-> <<>>]
      ELSE body

_parse_ai_response(response, source_file) ==
  LET body == ParseBody(response, source_file)
  IN  \* except json.JSONDecodeError: return []
      IF body.raised = "JSONDecodeError" THEN [raised |-> "", value |-> <<>>]
      \* except Exception: return []
      ELSE IF body.raised # "" THEN [raised |-> "", value |-> <<>>]
      ELSE body

(***************************************************************************)
(* The responses handed to _parse_ai_response                              *)
(***************************************************************************)
\* the longest 'produtos' list of the responses whose list varies
MaxRaw == 2

RawProduct(codigo, referencia, descricao, quantidade, valor_unitario, valor_total) ==
  [is_dict |-> TRUE,
   codigo |-> codigo,
   referencia |-> referencia,
   descricao |-> descricao,
   quantidade |-> quantidade,
   valor_unitario |-> valor_unitario,
   valor_total |-> valor_total]

\* a list element that is a string, not an object
NotADict ==
  [is_dict |-> FALSE, codigo |-> Absent, referencia |-> Absent,
   descricao |-> Absent, quantidade |-> Absent, valor_unitario |-> Absent,
   valor_total |-> Absent]

\* missing, null, "", " ", "B", " B ", "a b", the number 5, a list
RawDescricoes ==
  {Absent, JsonNull, JsonString(<<>>), JsonString(<<" ">>),
   JsonString(<<"B">>), JsonString(<<" ", "B", " ">>),
   JsonString(<<"a", " ", "b">>), JsonNumber(5, 1), JsonList}

\* missing, null, "P", " P ", the number 7, the number 0
RawCodigos ==
  {Absent, JsonNull, JsonString(<<"P">>), JsonString(<<" ", "P", " ">>),
   JsonNumber(7, 1), JsonNumber(0, 1)}

\* missing, 0, 2, 3, 6, 100, -5, 1/2, true, null, a list, and the strings
\* "100", "10.5", "R$ 1.234,56", "-5", "a", ""
RawNumbers ==
  {Absent, JsonNumber(0, 1), JsonNumber(2, 1), JsonNumber(3, 1),
   JsonNumber(6, 1), JsonNumber(100, 1), JsonNumber(-5, 1), JsonNumber(1, 2),
   JsonBool(TRUE), JsonNull, JsonList,
   JsonString(<<"1", "0", "0">>),
   JsonString(<<"1", "0", ".", "5">>),
   JsonString(<<"R", "$", " ", "1", ".", "2", "3", "4", ",", "5", "6">>),
   JsonString(<<"-", "5">>),
   JsonString(<<"a">>),
   JsonString(<<>>)}

\* {"descricao": "B", "quantidade": 2, "valor_unitario": 3, "valor_total": 6}
\* with the texts varied, and next to them the same with the numbers varied
RawIdentities ==
  {RawProduct(c, r, d, JsonNumber(2, 1), JsonNumber(3, 1), JsonNumber(6, 1)) :
     c \in RawCodigos, r \in RawCodigos, d \in RawDescricoes}

RawProducts ==
  RawIdentities
  \cup {RawProduct(JsonNull, JsonNull, JsonString(<<"B">>), q, u, t) :
          q \in RawNumbers, u \in RawNumbers, t \in RawNumbers}
  \cup {NotADict}

\* the elements of the lists of several products
ListedProducts ==
  {RawProduct(JsonNull, JsonNull, JsonString(<<"B">>),
              JsonNumber(2, 1), JsonNumber(3, 1), JsonNumber(6, 1)),
   RawProduct(JsonString(<<"P">>), JsonNull, JsonString(<<"a", " ", "b">>),
              JsonNumber(2, 1), JsonNumber(3, 1), JsonNumber(0, 1)),
   RawProduct(JsonNumber(7, 1), JsonNull, JsonString(<<"a", " ", "b">>),
              JsonNumber(2, 1), JsonNumber(3, 1), JsonNumber(6, 1)),
   RawProduct(JsonNull, JsonNull, JsonString(<<" ", "B", " ">>),
              JsonNumber(2, 1), JsonNumber(3, 1), JsonNumber(100, 1)),
   RawProduct(JsonNull, JsonNull, JsonString(<<" ">>),
              JsonNumber(2, 1), JsonNumber(3, 1), JsonNumber(6, 1)),
   RawProduct(JsonNull, JsonNull, JsonNull,
              JsonNumber(2, 1), JsonNumber(3, 1), JsonNumber(6, 1))}

RawLists == UNION {[1..n -> ListedProducts] : n \in 0..MaxRaw}

\* what stands before the opening fence and behind the closing one
Leads == {<<>>, <<"x", " ">>}

Trails == {<<>>, <<" ", "x">>}

\* no fence, ```json with and without whitespace behind it, ``` alone
OpeningFences ==
  {<<>>, JsonFence, JsonFence \o <<" ">>, Fence \o <<" ">>}

ClosingFences == {<<>>, Fence, <<" ">> \o Fence}

\* objects with and without a 'produtos' list, a number, prose, HTML, nothing,
\* a lone brace of either kind, braces in the wrong order, two objects, and
\* objects of a string that holds a fence marker and of an empty string
Bodies ==
  {<<"{", "P", "}">>, <<"{", " ", "P", " ", "}">>, <<"{", "E", "}">>,
   <<"{", "Q", "}">>, <<"{", "L", "}">>, <<"{", "}">>,
   <<"{", "Q", ",", "P", "}">>, <<"{", "P", ",", "L", "}">>,
   <<"1">>, <<"x">>, <<"<", "x", ">">>, <<>>,
   <<"{", "Q">>, <<"Q", "}">>, <<"}", "{">>,
   <<"{", "P", "}", "x", "{", "Q", "}">>,
   <<"{", "q", "x", "'", "'", "'", " ", "x", "q", "}">>, <<"{", "q", "q", "}">>}

ResponseTexts ==
  {l \o o \o b \o c \o t :
     l \in Leads, o \in OpeningFences, b \in Bodies, c \in ClosingFences,
     t \in Trails}

StringResponse(text, produtos) ==
  [kind |-> "string", text |-> text, produtos |-> produtos]

\* the message content None of a completion without text
NoneResponse == [kind |-> "none", text |-> <<>>, produtos |-> <<>>]

\* every text around a list of one product, the plain object around every
\* product and around every list of products, and None
Responses ==
  {StringResponse(t, <<p>>) :
     t \in ResponseTexts,
     p \in {RawProduct(JsonNull, JsonNull, JsonString(<<"B">>),
                       JsonNumber(2, 1), JsonNumber(3, 1), JsonNumber(6, 1))}}
  \cup {StringResponse(<<"{", "P", "}">>, <<p>>) : p \in RawProducts}
  \cup {StringResponse(<<"{", "P", "}">>, l) : l \in RawLists}
  \cup {NoneResponse}

\* the file the response was obtained for
SourceFile == <<"u", "/", "a">>

(***************************************************************************)
(* State machine of the parser                                             *)
(***************************************************************************)
ParserInit ==
  /\ ai_response \in Responses
  /\ cleaned_response = NoValue
  /\ parsed_products = NoValue
  /\ pc = "response"
  /\ all_products = <<>>
  /\ consolidated_products = <<>>
  /\ second = <<>>
  /\ split = 0
  /\ file_paths = <<>>
  /\ next_file = 0
  /\ processing_info = NoValue
  /\ ai_calls = 0
  /\ results = <<>>
  /\ upload_response = 0
  /\ ClientIdle
  /\ ConfigIdle
  /\ SessionIdle

\* cleaned_response = self._clean_json_response(ai_response), on a str
CleanJsonResponse ==
  /\ pc = "response"
  /\ ai_response.kind = "string"
  /\ cleaned_response' = _clean_json_response(ai_response.text)
  /\ pc' = "cleaned"
  /\ UNCHANGED <<ai_response, parsed_products>>
  /\ UNCHANGED <<all_products, consolidated_products, second, split, run_vars>>
  /\ UNCHANGED <<config_vars, session_vars>>

\* products = self._parse_ai_response(ai_response, file_path)
ParseAiResponse ==
  /\ pc = "response"
  /\ parsed_products' = _parse_ai_response(ai_response, SourceFile)
  /\ pc' = "parsed"
  /\ UNCHANGED <<ai_response, cleaned_response>>
  /\ UNCHANGED <<all_products, consolidated_products, second, split, run_vars>>
  /\ UNCHANGED <<config_vars, session_vars>>

ParserNext ==
  \/ CleanJsonResponse
  \/ ParseAiResponse

ParserSpec == ParserInit /\ [][ParserNext]_vars

(***************************************************************************)
(* The AI clients (ai_providers.py).  extract_product_data catches every   *)
(* exception of the provider call, looks for the client's keywords in the  *)
(* lowered text of the exception and raises either the contact message or  *)
(* the exception itself.  process_files records str(e) of what was raised. *)
(***************************************************************************)
\* the client classes of AIProviderManager.get_client
Clients == {"openai", "anthropic", "google", "deepseek", "generic"}

\* texts of exceptions raised by a provider call: an exhausted quota, an
\* exhausted credit, a rejected API key, a network timeout
ProviderMessages ==
  {"insufficient_quota", "credit balance is too low", "invalid_api_key",
   "timeout"}

\* the characters of str(e)
Chars(message) ==
  CASE message = "insufficient_quota" ->
         <<"i", "n", "s", "u", "f", "f", "i", "c", "i", "e", "n", "t", "_", "q", "u", "o", "t", "a">>
    [] message = "credit balance is too low" ->
         <<"c", "r", "e", "d", "i", "t", " ", "b", "a", "l", "a", "n", "c", "e", " ", "i", "s", " ", "t", "o", "o", " ", "l", "o", "w">>
    [] message = "invalid_api_key" ->
         <<"i", "n", "v", "a", "l", "i", "d", "_", "a", "p", "i", "_", "k", "e", "y">>
    [] message = "timeout" ->
         <<"t", "i", "m", "e", "o", "u", "t">>

\* the words each client looks for in str(e).lower()
Keywords(client) ==
  CASE client = "openai" -> {<<"i", "n", "s", "u", "f", "f", "i", "c", "i", "e", "n", "t", "_", "q", "u", "o", "t", "a">>, <<"q", "u", "o", "t", "a">>}
    [] client = "anthropic" -> {<<"c", "r", "e", "d", "i", "t">>, <<"q", "u", "o", "t", "a">>}
    [] client = "google" -> {<<"q", "u", "o", "t", "a">>, <<"l", "i", "m", "i", "t">>}
    [] client = "deepseek" -> {<<"q", "u", "o", "t", "a">>, <<"c", "r", "e", "d", "i", "t">>}
    [] client = "generic" -> {<<"q", "u", "o", "t", "a">>, <<"c", "r", "e", "d", "i", "t">>}

ContactMessage ==
  "Entrar em contato com o Fornecedor para ativar o uso da plataforma"

\* str(e) of the exception that leaves extract_product_data when the provider
\* call raised an exception of this text
extract_product_data_error(client, message) ==
  IF \E keyword \in Keywords(client) : Contains(Lower(Chars(message)), keyword)
  THEN ContactMessage
  ELSE message

(***************************************************************************)
(* process_files and the answer of upload_files                            *)
(*                                                                         *)
(* A file is a record that says what the environment does with its path:   *)
(* format is "pdf", "image" or "other" (the extension of the path);        *)
(* embedded is what reading the pages of a PDF gives and ocr what          *)
(* pytesseract gives, each "raises", "blank" (only whitespace) or "text";  *)
(* ai is "raises" or "responds"; error is the message of the exception     *)
(* raised; response is the value the AI client returns.                    *)
(***************************************************************************)
\* the longest batch
MaxFiles == 3

Document(path, format, embedded, ocr, ai, error, response) ==
  [path |-> path, format |-> format, embedded |-> embedded, ocr |-> ocr,
   ai |-> ai, error |-> error, response |-> response]

\* the outcome of _extract_text_from_file and the number of its calls of
\* _extract_text_from_image.  A PDF is read page by page and the text of the
\* pages is returned, whatever it is; only the except clause of
\* _extract_text_from_pdf calls _extract_text_from_image, whose exception
\* is raised again.  An image goes to _extract_text_from_image, any other
\* extension raises ValueError.
_extract_text_from_file(file) ==
  IF file.format = "pdf"
  THEN IF file.embedded = "raises"
       THEN [outcome |-> file.ocr, ocr_calls |-> 1]
       ELSE [outcome |-> file.embedded, ocr_calls |-> 0]
  ELSE IF file.format = "image"
  THEN [outcome |-> file.ocr, ocr_calls |-> 1]
  ELSE [outcome |-> "raises", ocr_calls |-> 0]

Extraction(file) == _extract_text_from_file(file).outcome

\* a file that is no PDF and has this extraction: an image of this OCR
\* result, or, when the extraction raises, a file of an unsupported format
File(path, extraction, ai, error, response) ==
  IF extraction = "raises"
  THEN Document(path, "other", "raises", "raises", ai, error, response)
  ELSE Document(path, "image", "raises", extraction, ai, error, response)

\* {"produtos": [B 2 x 3 = 6]}
OneProductResponse == StringResponse(<<"{", "P", "}">>, <<CHOOSE p \in ListedProducts :
  /\ p.descricao = JsonString(<<"B">>)
  /\ p.valor_total = JsonNumber(6, 1)>>)

\* a fenced object of two products, the second without its total; an object
\* of a product and a blank description; prose; HTML; an object without
\* 'produtos'; an object whose 'produtos' is no list; a number; None
RunResponses ==
  {OneProductResponse,
   StringResponse(JsonFence \o <<" ", "{", "P", "}", " ">> \o Fence,
                  <<CHOOSE p \in ListedProducts : p.descricao = JsonString(<<" ", "B", " ">>),
                    CHOOSE p \in ListedProducts : p.codigo = JsonString(<<"P">>)>>),
   StringResponse(<<"{", "P", "}">>,
                  <<CHOOSE p \in ListedProducts : p.descricao = JsonString(<<" ">>),
                    CHOOSE p \in ListedProducts : p.codigo = JsonString(<<"P">>)>>),
   StringResponse(<<"x">>, <<>>),
   StringResponse(<<"<", "x", ">">>, <<>>),
   StringResponse(<<"{", "Q", "}">>, <<>>),
   StringResponse(<<"{", "L", "}">>, <<>>),
   StringResponse(<<"1">>, <<>>),
   NoneResponse}

PathA == <<"u", "/", "a">>

PathB == <<"u", "/", "b">>

Files ==
  {File(PathA, "raises", "responds", "Unsupported file format", OneProductResponse),
   File(PathA, "blank", "responds", "", OneProductResponse),
   File(PathA, "text", "raises", "insufficient_quota", NoneResponse),
   File(PathB, "raises", "responds", "Unsupported file format", OneProductResponse),
   File(PathB, "text", "responds", "", OneProductResponse)}
  \cup {File(PathA, "text", "responds", "", r) : r \in RunResponses}

\* every batch of up to MaxFiles of these files, and the batches of one file
\* answered with a list of one product, for every identity of a product
Batches ==
  UNION {[1..n -> Files] : n \in 0..MaxFiles}
  \cup {<<File(PathA, "text", "responds", "", StringResponse(<<"{", "P", "}">>, <<p>>))>> :
          p \in RawIdentities}

\* a file whose provider call raises, for every text of the exception, and a
\* file that gives a product
ProviderFiles ==
  {File(PathA, "text", "raises", message, NoneResponse) :
     message \in ProviderMessages}
  \cup {File(PathB, "text", "responds", "", OneProductResponse)}

\* the batches run with every client: one or two of these files
ProviderBatches == UNION {[1..n -> ProviderFiles] : n \in 1..2}

\* PDF files: a scanned one without a text layer whose OCR would give text,
\* or nothing, one whose pages cannot be read and whose OCR gives text,
\* nothing, or raises, and one with a text layer; and an image
PdfFiles ==
  {Document(PathA, "pdf", "blank", "text", "responds", "", OneProductResponse),
   Document(PathA, "pdf", "blank", "blank", "responds", "", OneProductResponse),
   Document(PathA, "pdf", "raises", "text", "responds", "", OneProductResponse),
   Document(PathA, "pdf", "raises", "blank", "responds", "", OneProductResponse),
   Document(PathA, "pdf", "raises", "raises", "responds",
            "cannot identify image file", OneProductResponse),
   Document(PathB, "pdf", "text", "raises", "responds", "", OneProductResponse),
   File(PathB, "text", "responds", "", OneProductResponse)}

\* the batches of one or two of these files
PdfBatches == UNION {[1..n -> PdfFiles] : n \in 1..2}

\* the name of a codigo or referencia in the records of the consolidation
AsName(s) == CASE s = <<>> -> "" [] s = <<"P">> -> "P"

\* the normalized dict in the representation of the consolidation, which
\* keeps quantidade and valor_total as whole numbers; the responses of the
\* batches have whole quantities and totals
AsRecord(product) ==
  [codigo |-> AsName(product.codigo),
   referencia |-> AsName(product.referencia),
   descricao |-> product.descricao,
   quantidade |-> product.quantidade.num,
   valor_unitario |-> product.valor_unitario,
   valor_total |-> product.valor_total.num,
   fonte |-> product.fonte]

\* the sum that stops after the first record
TotalValue_OfFirst(values) ==
  IF values = <<>> THEN 0 ELSE Head(values).valor_total

\* sum(p['valor_total'] for p in consolidated_products)
RECURSIVE TotalValue(_)
TotalValue(values) ==
  IF values = <<>> THEN 0
  ELSE Head(values).valor_total + TotalValue(Tail(values))

RunInit ==
  /\ \/ file_paths \in Batches /\ ai_client = "openai"
     \/ file_paths \in ProviderBatches /\ ai_client \in Clients
     \/ file_paths \in PdfBatches /\ ai_client = "openai"
  /\ ocr_calls = 0
  /\ next_file = 1
  /\ all_products = <<>>
  /\ processing_info = [total_files |-> Len(file_paths),
                        processed_files |-> 0,
                        failed_files |-> <<>>,
                        extracted_products |-> 0]
  /\ ai_calls = 0
  /\ consolidated_products = <<>>
  /\ results = <<>>
  /\ upload_response = 0
  /\ ConfigIdle
  /\ SessionIdle
  /\ pc = "loop"
  /\ second = <<>>
  /\ split = 0
  /\ ai_response = NoValue
  /\ cleaned_response = NoValue
  /\ parsed_products = NoValue

\* the failure that also counts the file as processed
Failed_AlsoProcessed(info, file, error) ==
  [info EXCEPT !.failed_files =
                 Append(@, [file |-> Basename(file.path), error |-> error]),
               !.processed_files = @ + 1]

\* processing_info after failed_files.append({'file': ..., 'error': ...})
Failed(info, file, error) ==
  [info EXCEPT !.failed_files =
     Append(@, [file |-> Basename(file.path), error |-> error])]

\* the iteration that calls the client whatever the extraction gave
CallsOfClient_Always(file) == 1

\* the number of calls of ai_client.extract_product_data in the iteration
\* for this file: the call is reached when the extraction returned text that
\* is not blank
CallsOfClient(file) == IF Extraction(file) = "text" THEN 1 ELSE 0

\* one iteration of `for file_path in file_paths:`
ProcessFile ==
  /\ pc = "loop"
  /\ next_file <= Len(file_paths)
  /\ LET file == file_paths[next_file]
         parsed == _parse_ai_response(file.response, file.path)
         found == [i \in 1..Len(parsed.value) |-> AsRecord(parsed.value[i])]
     IN  \* text = self._extract_text_from_file(file_path) raises
         IF Extraction(file) = "raises"
         THEN /\ processing_info' = Failed(processing_info, file, file.error)
              /\ UNCHANGED <<all_products, ai_response, parsed_products>>
         \* if not text.strip(): ... continue
         ELSE IF Extraction(file) = "blank"
         THEN /\ processing_info' =
                   Failed(processing_info, file, "Texto nao encontrado no arquivo")
              /\ UNCHANGED <<all_products, ai_response, parsed_products>>
         \* ai_client.extract_product_data(text) raises
         ELSE IF file.ai = "raises"
         THEN /\ processing_info' =
                   Failed(processing_info, file,
                          extract_product_data_error(ai_client, file.error))
              /\ UNCHANGED <<all_products, ai_response, parsed_products>>
         \* self._parse_ai_response(ai_response, file_path) raises
         ELSE IF parsed.raised # ""
         THEN /\ processing_info' = Failed(processing_info, file, parsed.raised)
              /\ ai_response' = file.response
              /\ UNCHANGED <<all_products, parsed_products>>
         ELSE /\ all_products' = all_products \o found
              /\ processing_info' =
                   [processing_info EXCEPT
                      !.extracted_products = @ + Len(found),
                      !.processed_files = @ + 1]
              /\ ai_response' = file.response
              /\ parsed_products' = parsed
  /\ ai_calls' = ai_calls + CallsOfClient(file_paths[next_file])
  /\ ocr_calls' =
       ocr_calls + _extract_text_from_file(file_paths[next_file]).ocr_calls
  /\ next_file' = next_file + 1
  /\ UNCHANGED <<file_paths, consolidated_products, results, upload_response, pc>>
  /\ UNCHANGED <<second, split, cleaned_response>>
  /\ UNCHANGED <<ai_client, config_vars, session_vars>>

\* the run that returns no report when no product was found
Report_NoneWhenEmpty(info, products) ==
  IF products = <<>> THEN <<>>
  ELSE <<[processing_info |-> info,
          products |-> products,
          total_products |-> Len(products),
          total_value |-> TotalValue(products)]>>

\* the dict process_files returns; <<>> stands for the None of its except
\* clause
Report(info, products) ==
  <<[processing_info |-> info,
     products |-> products,
     total_products |-> Len(products),
     total_value |-> TotalValue(products)]>>

\* the end of process_files: consolidation and the report
ReturnResults ==
  /\ pc = "loop"
  /\ next_file > Len(file_paths)
  /\ consolidated_products' = _consolidate_products(all_products)
  /\ results' = Report(processing_info, consolidated_products')
  /\ all_products' = InputAfter(all_products)
  /\ pc' = "returned"
  /\ UNCHANGED <<file_paths, next_file, processing_info, ai_calls,
                 upload_response>>
  /\ UNCHANGED <<second, split, parser_vars>>
  /\ UNCHANGED <<ai_client, ocr_calls, config_vars, session_vars>>

\* upload_files: `if not results or 'products' not in results:` answers 500,
\* otherwise the results are stored and answered with success
AnswerUpload ==
  /\ pc = "returned"
  /\ upload_response' = IF results = <<>> THEN 500 ELSE 200
  /\ pc' = "answered"
  /\ UNCHANGED <<file_paths, next_file, all_products, processing_info, ai_calls,
                 consolidated_products, results>>
  /\ UNCHANGED <<second, split, parser_vars>>
  /\ UNCHANGED <<ai_client, ocr_calls, config_vars, session_vars>>

RunNext ==
  \/ ProcessFile
  \/ ReturnResults
  \/ AnswerUpload

RunSpec == RunInit /\ [][RunNext]_vars

(***************************************************************************)
(* AIProviderManager and Config (ai_providers.py, config.py)               *)
(*                                                                         *)
(* AI_MODELS is the class attribute Config.AI_MODELS: for each provider    *)
(* the list object under 'models'.  _load_config copies the outer dict     *)
(* only (dict.copy() is shallow), so config[provider] of every manager is  *)
(* the very dict of Config.AI_MODELS and its 'models' list is shared; the  *)
(* entry of a provider that Config.AI_MODELS does not have is the object   *)
(* json.loads has built for this manager.  A manager is the sequence of    *)
(* the entries of its own; models is the result of the last get_models.    *)
(***************************************************************************)
\* the most managers constructed
MaxManagers == 3

\* two of the providers of Config.AI_MODELS with their lists of models
ConfigAiModels ==
  [openai |-> <<"gpt-4o", "gpt-4o-mini", "gpt-4", "gpt-3.5-turbo">>,
   anthropic |-> <<"claude-3-opus-20240229", "claude-3-sonnet-20240229",
                   "claude-3-haiku-20240307">>]

\* a member of the JSON object of ADDITIONAL_MODELS: the value is a dict
\* with these 'models' (none when the key is missing), or no dict
Additional(provider, is_dict, additional_models) ==
  [provider |-> provider, is_dict |-> is_dict, models |-> additional_models]

\* a text json.loads accepts, with its members in order, or one it rejects
Setting(valid, items) == [valid |-> valid, items |-> items]

\* '{}' (the default), a text that is no JSON, more models for a provider of
\* Config.AI_MODELS, a member of it without 'models', a new provider, both,
\* two providers of Config.AI_MODELS, and a provider of Config.AI_MODELS
\* whose value is a list, alone and behind another member
Settings ==
  {Setting(TRUE, <<>>),
   Setting(FALSE, <<>>),
   Setting(TRUE, <<Additional("openai", TRUE, <<"gpt-4-turbo">>)>>),
   Setting(TRUE, <<Additional("openai", TRUE, <<>>)>>),
   Setting(TRUE, <<Additional("local", TRUE, <<"llama3">>)>>),
   Setting(TRUE, <<Additional("local", TRUE, <<"llama3">>),
                   Additional("openai", TRUE, <<"gpt-4-turbo">>)>>),
   Setting(TRUE, <<Additional("openai", TRUE, <<"gpt-4-turbo">>),
                   Additional("anthropic", TRUE, <<"claude-3-5-sonnet">>)>>),
   Setting(TRUE, <<Additional("openai", FALSE, <<>>)>>),
   Setting(TRUE, <<Additional("anthropic", TRUE, <<"claude-3-5-sonnet">>),
                   Additional("openai", FALSE, <<>>)>>)}

\* the providers a get_models is asked for
Providers == {"openai", "anthropic", "local", "unknown"}

\* `for provider, models in additional.items():` from this member on.  The
\* AttributeError of models.get on a value that is no dict ends the loop in
\* the except clause, and what was done before it stays.
RECURSIVE LoadAdditional(_, _)
LoadAdditional(config, items) ==
  IF items = <<>> THEN config
  ELSE LET item == Head(items)
       IN  IF item.provider \in DOMAIN config.shared
           THEN IF ~item.is_dict THEN config
                ELSE LoadAdditional(
                       [config EXCEPT !.shared[item.provider] = @ \o item.models],
                       Tail(items))
           ELSE LoadAdditional(
                  [config EXCEPT !.own =
                     Append(@, [provider |-> item.provider,
                                models |-> item.models])],
                  Tail(items))

\* _load_config: the lists of Config.AI_MODELS after it and the entries of
\* the new manager's own
_load_config(shared, setting) ==
  IF ~setting.valid THEN [shared |-> shared, own |-> <<>>]
  ELSE LoadAdditional([shared |-> shared, own |-> <<>>], setting.items)

\* get_models: the list self.config[provider]['models'], or ValueError
get_models(manager, provider) ==
  IF provider \in DOMAIN AI_MODELS
  THEN [raised |-> "", value |-> AI_MODELS[provider]]
  ELSE LET own == {i \in 1..Len(manager) : manager[i].provider = provider}
       IN  IF own = {} THEN [raised |-> "ValueError", value |-> <<>>]
           ELSE [raised |-> "", value |-> manager[CHOOSE i \in own : TRUE].models]

ConfigInit ==
  /\ AI_MODELS = ConfigAiModels
  /\ ADDITIONAL_MODELS \in Settings
  /\ managers = <<>>
  /\ models = [raised |-> "", value |-> <<>>]
  /\ pc = "config"
  /\ all_products = <<>>
  /\ consolidated_products = <<>>
  /\ second = <<>>
  /\ split = 0
  /\ ai_response = NoValue
  /\ cleaned_response = NoValue
  /\ parsed_products = NoValue
  /\ file_paths = <<>>
  /\ next_file = 0
  /\ processing_info = NoValue
  /\ ai_calls = 0
  /\ results = <<>>
  /\ upload_response = 0
  /\ ClientIdle
  /\ SessionIdle

\* AIProviderManager(): self.config = self._load_config()
Construct ==
  /\ pc = "config"
  /\ Len(managers) < MaxManagers
  /\ LET config == _load_config(AI_MODELS, ADDITIONAL_MODELS)
     IN  /\ AI_MODELS' = config.shared
         /\ managers' = Append(managers, config.own)
  /\ UNCHANGED <<ADDITIONAL_MODELS, models, pc>>
  /\ UNCHANGED <<all_products, consolidated_products, second, split>>
  /\ UNCHANGED <<parser_vars, run_vars, session_vars>>

\* manager.get_models(provider) of the i-th manager
GetModels(i, provider) ==
  /\ pc = "config"
  /\ i \in 1..Len(managers)
  /\ models' = get_models(managers[i], provider)
  /\ UNCHANGED <<AI_MODELS, ADDITIONAL_MODELS, managers, pc>>
  /\ UNCHANGED <<all_products, consolidated_products, second, split>>
  /\ UNCHANGED <<parser_vars, run_vars, session_vars>>

ConfigNext ==
  \/ Construct
  \/ \E i \in 1..MaxManagers, provider \in Providers : GetModels(i, provider)

ConfigSpec == ConfigInit /\ [][ConfigNext]_vars

(***************************************************************************)
(* The temporary folder and the sessions (app.py, utils.py)                *)
(*                                                                         *)
(* temp_folder is the set of the entries of app.config['TEMP_FOLDER'].     *)
(* An entry is named by a prefix, the session it was made for and an       *)
(* extension; the directory of an upload has the prefix 'tmp' that         *)
(* tempfile.mkdtemp gives every directory, followed by random characters,  *)
(* for which the session of the upload stands.  The requests of different  *)
(* sessions are served concurrently: an upload is two steps, the saving of *)
(* the files and their processing.                                         *)
(***************************************************************************)
SessionIds == {"A", "B"}

\* session_{session_id}.json
SessionFile(session_id) ==
  [prefix |-> "session_", id |-> session_id, ext |-> "json", is_dir |-> FALSE]

\* pedido_compra_{session_id}.pdf, .xlsx, .csv
ReportFile(session_id, ext) ==
  [prefix |-> "pedido_compra_", id |-> session_id, ext |-> ext, is_dir |-> FALSE]

\* the directory tempfile.mkdtemp(dir=TEMP_FOLDER) makes for an upload, with
\* the files saved in it
TempDir(session_id) ==
  [prefix |-> "tmp", id |-> session_id, ext |-> "", is_dir |-> TRUE]

Formats == {"pdf", "excel", "csv"}

\* the extension of the report of a format
Extension(format) ==
  CASE format = "pdf" -> "pdf"
    [] format = "excel" -> "xlsx"
    [] format = "csv" -> "csv"

\* the entries left by cleanup_temp_files(session_id, temp_folder): the
\* session file and the three reports of the session are removed, and every
\* directory whose name starts with 'tmp'
cleanup_temp_files(session_id, folder) ==
  {e \in folder :
     /\ e # SessionFile(session_id)
     /\ e \notin {ReportFile(session_id, ext) : ext \in {"pdf", "xlsx", "csv"}}
     /\ ~(e.prefix = "tmp" /\ e.is_dir)}

SessionInit ==
  /\ temp_folder = {}
  /\ sessions = [s \in SessionIds |-> [pc |-> "new", files |-> "unread"]]
  /\ pc = "serving"
  /\ all_products = <<>>
  /\ consolidated_products = <<>>
  /\ second = <<>>
  /\ split = 0
  /\ ai_response = NoValue
  /\ cleaned_response = NoValue
  /\ parsed_products = NoValue
  /\ file_paths = <<>>
  /\ next_file = 0
  /\ processing_info = NoValue
  /\ ai_calls = 0
  /\ results = <<>>
  /\ upload_response = 0
  /\ ClientIdle
  /\ ConfigIdle

\* upload_files up to the processing: mkdtemp and file.save of every file
StartUpload(s) ==
  /\ pc = "serving"
  /\ sessions[s].pc = "new"
  /\ temp_folder' = temp_folder \cup {TempDir(s)}
  /\ sessions' = [sessions EXCEPT ![s].pc = "uploading"]
  /\ UNCHANGED <<all_products, consolidated_products, second, split, pc>>
  /\ UNCHANGED <<parser_vars, run_vars, config_vars>>

\* upload_files from process_files on: the saved files are read, if they
\* are still there, and the session file is written
FinishUpload(s) ==
  /\ pc = "serving"
  /\ sessions[s].pc = "uploading"
  /\ sessions' = [sessions EXCEPT
                    ![s].pc = "stored",
                    ![s].files = IF TempDir(s) \in temp_folder
                                 THEN "read" ELSE "lost"]
  /\ temp_folder' = temp_folder \cup {SessionFile(s)}
  /\ UNCHANGED <<all_products, consolidated_products, second, split, pc>>
  /\ UNCHANGED <<parser_vars, run_vars, config_vars>>

\* generate_report(session_id, format): 404 without the session file,
\* otherwise the report is written to the temporary folder
GenerateReport(s, format) ==
  /\ pc = "serving"
  /\ SessionFile(s) \in temp_folder
  /\ temp_folder' = temp_folder \cup {ReportFile(s, Extension(format))}
  /\ UNCHANGED <<sessions, pc>>
  /\ UNCHANGED <<all_products, consolidated_products, second, split>>
  /\ UNCHANGED <<parser_vars, run_vars, config_vars>>

\* cleanup_session(session_id)
Cleanup(s) ==
  /\ pc = "serving"
  /\ temp_folder' = cleanup_temp_files(s, temp_folder)
  /\ UNCHANGED <<sessions, pc>>
  /\ UNCHANGED <<all_products, consolidated_products, second, split>>
  /\ UNCHANGED <<parser_vars, run_vars, config_vars>>

SessionNext ==
  \/ \E s \in SessionIds : StartUpload(s)
  \/ \E s \in SessionIds : FinishUpload(s)
  \/ \E s \in SessionIds, format \in Formats : GenerateReport(s, format)
  \/ \E s \in SessionIds : Cleanup(s)

SessionSpec == SessionInit /\ [][SessionNext]_vars

(***************************************************************************)
(* Vocabulary of the properties                                            *)
(***************************************************************************)
Consolidated == pc # "collected"

\* quantidade * valor_unitario = valor_total, as exact values
IsProduct(valor_total, quantidade, valor_unitario) ==
  valor_total * valor_unitario.den = quantidade * valor_unitario.num

\* the input records that have the consolidation key of record r, in input order
GroupOf(r) ==
  SelectSeq(all_products,
            LAMBDA p : _generate_product_key(p) = _generate_product_key(r))

RECURSIVE SumQuantidade(_)
SumQuantidade(products) ==
  IF products = <<>> THEN 0
  ELSE Head(products).quantidade + SumQuantidade(Tail(products))

RECURSIVE SumValorTotal(_)
SumValorTotal(products) ==
  IF products = <<>> THEN 0
  ELSE Head(products).valor_total + SumValorTotal(Tail(products))

\* the file names of a comma-joined fonte: fonte.split(", ")
RECURSIVE SplitNames(_)
SplitNames(fonte) ==
  LET commas == {i \in 1..(Len(fonte) - 1) : fonte[i] = "," /\ fonte[i + 1] = " "}
  IN  IF commas = {} THEN <<fonte>>
      ELSE LET i == CHOOSE i \in commas : \A j \in commas : i <= j
           IN  <<SubSeq(fonte, 1, i - 1)>> \o SplitNames(SubSeq(fonte, i + 2, Len(fonte)))

Range(f) == {f[i] : i \in DOMAIN f}

Outputs == 1..Len(consolidated_products)

\* The statements TLC is to refute are stated on inputs within the data
\* model's range of quantidade (non-negative), and on inputs of positive
\* quantity where the claim is not about a zero quantity, so that no
\* refutation rests on a negative or a zero quantity.
NonNegativeInput ==
  \A j \in 1..Len(all_products) : all_products[j].quantidade >= 0

PositiveInput ==
  \A j \in 1..Len(all_products) : all_products[j].quantidade > 0

(***************************************************************************)
(* C1                                                                      *)
(***************************************************************************)
\* C1: every record emitted by consolidation satisfies
\* valor_total = quantidade * valor_unitario, merged or not, also when the
\* supplied total was inconsistent.
C1_TotalIsQuantidadeTimesUnitario ==
  Consolidated /\ NonNegativeInput =>
    \A i \in Outputs :
      LET r == consolidated_products[i]
      IN  IsProduct(r.valor_total, r.quantidade, r.valor_unitario)

(***************************************************************************)
(* C2                                                                      *)
(***************************************************************************)
\* C2: the quantidade of each consolidated record is the sum of the quantidade
\* of all input records that have the same consolidation key.
C2_QuantidadeIsSumOfGroup ==
  Consolidated =>
    \A i \in Outputs :
      LET r == consolidated_products[i]
      IN  r.quantidade = SumQuantidade(GroupOf(r))

\* a record merged from several inputs of nonzero quantity
C2_Witness ==
  /\ Consolidated
  /\ \E i \in Outputs :
       LET g == GroupOf(consolidated_products[i])
       IN  /\ Len(g) >= 3
           /\ \A j \in 1..Len(g) : g[j].quantidade > 0
           /\ g[1].quantidade # g[2].quantidade

C4_FonteIsDistinctUnion ==
  Consolidated /\ PositiveInput =>
    \A i \in Outputs :
      LET r == consolidated_products[i]
          g == GroupOf(r)
          names == SplitNames(r.fonte)
      IN  /\ Range(names) = {g[j].fonte : j \in 1..Len(g)}
          /\ Len(names) = Cardinality(Range(names))

(***************************************************************************)
(* C5                                                                      *)
(***************************************************************************)
\* descricao lower-cased, punctuation removed, whitespace runs collapsed
ClaimedDescricao(r) == CollapseWhitespace(RemovePunctuation(Lower(r.descricao)))

\* two records have the same key as the claim words it: the key is codigo if
\* non-empty, else referencia if non-empty, else the normalized descricao
SameClaimedKey(a, b) ==
  IF a.codigo # "" \/ b.codigo # "" THEN a.codigo = b.codigo
  ELSE IF a.referencia # "" \/ b.referencia # "" THEN a.referencia = b.referencia
  ELSE ClaimedDescricao(a) = ClaimedDescricao(b)

ClaimedGroupOf(r) ==
  SelectSeq(all_products, LAMBDA p : SameClaimedKey(p, r))

ConsistentGroup(g) ==
  /\ Len(g) >= 2
  /\ \A j, k \in 1..Len(g) :
       /\ g[j].valor_unitario = g[k].valor_unitario
       /\ g[j].fonte = g[k].fonte => j = k
  /\ \A j \in 1..Len(g) :
       IsProduct(g[j].valor_total, g[j].quantidade, g[j].valor_unitario)

\* C6: when all records sharing a key come from different files, have the
\* same unit price u and consistent totals, the consolidated record has the
\* summed quantidade, valor_unitario u, valor_total (sum) * u, and a fonte
\* that lists every contributing file.
C6_ConsistentGroupMerged ==
  Consolidated /\ PositiveInput =>
    \A i \in Outputs :
      LET r == consolidated_products[i]
          g == GroupOf(r)
      IN  ConsistentGroup(g) =>
            /\ r.quantidade = SumQuantidade(g)
            /\ r.valor_unitario = g[1].valor_unitario
            /\ IsProduct(r.valor_total, SumQuantidade(g), g[1].valor_unitario)
            /\ \A j \in 1..Len(g) : g[j].fonte \in Range(SplitNames(r.fonte))

(***************************************************************************)
(* C7                                                                      *)
(***************************************************************************)
\* C7: consolidation is idempotent: consolidating the consolidated list gives
\* the same records, field for field, in the same order.
C7_Idempotent ==
  pc = "reconsolidated" => second = consolidated_products

\* a result of several records, one of them merged, consolidated again
C7_Witness ==
  /\ pc = "reconsolidated"
  /\ PositiveInput
  /\ Len(consolidated_products) >= 2
  /\ Len(consolidated_products) < Len(all_products)

(***************************************************************************)
(* C8                                                                      *)
(***************************************************************************)
\* a record before the split shares its key with a record after it
SharesKeyAcrossSplit ==
  \E i \in 1..split, j \in (split + 1)..Len(all_products) :
    _generate_product_key(all_products[i]) = _generate_product_key(all_products[j])

\* C8: consolidation can be done incrementally: consolidating the first
\* records, appending the rest and consolidating again gives the result of one
\* pass over all records, when a later record shares a key with an earlier one
\* ([A, B] then [C] with A and C sharing a key).
C8_Incremental ==
  pc = "incremental" /\ SharesKeyAcrossSplit => second = consolidated_products

\* [A, B] then [C], A and C of one key, B of another
C8_Witness ==
  /\ pc = "incremental"
  /\ PositiveInput
  /\ Len(all_products) = 3
  /\ split = 2
  /\ _generate_product_key(all_products[1]) = _generate_product_key(all_products[3])
  /\ _generate_product_key(all_products[1]) # _generate_product_key(all_products[2])
  /\ all_products[1].valor_unitario # all_products[3].valor_unitario

(***************************************************************************)
(* C9                                                                      *)
(***************************************************************************)
\* C9 as claimed: for every permutation of the input, consolidation returns
\* the same output sequence, identical in every field of every record.
C9_PermutationInvariant ==
  pc = "permuted" /\ PositiveInput => second = consolidated_products

\* C9 as amended: for every permutation of the input, consolidation returns
\* one record per consolidation key for the same keys, and the record of a key
\* has the same quantidade and the same valor_total.
C9_PermutationKeepsKeysAndSums ==
  pc = "permuted" =>
    /\ Len(second) = Len(consolidated_products)
    /\ \A i \in Outputs :
         \E j \in 1..Len(second) :
           /\ _generate_product_key(second[j])
                = _generate_product_key(consolidated_products[i])
           /\ second[j].quantidade = consolidated_products[i].quantidade
           /\ second[j].valor_total = consolidated_products[i].valor_total

\* a permutation that changes the output: a merged record takes descricao and
\* fonte order from whichever record comes first
C9_Witness ==
  /\ pc = "permuted"
  /\ PositiveInput
  /\ second # consolidated_products
  /\ Len(consolidated_products) < Len(all_products)
  /\ \E i \in Outputs : Len(GroupOf(consolidated_products[i])) >= 3

(***************************************************************************)
(* C10                                                                     *)
(***************************************************************************)
\* C10 as claimed: the output is ascending by descricao under case-insensitive
\* comparison: lower(descricao) of a record is <= that of the next record.
C10_AscendingCaseInsensitive ==
  Consolidated /\ PositiveInput =>
    \A i \in 1..(Len(consolidated_products) - 1) :
      ~StrLess(Lower(consolidated_products[i + 1].descricao),
               Lower(consolidated_products[i].descricao))

\* C10 as amended: the output is ascending by descricao under the comparison
\* of Python strings, by code point, so that upper case precedes lower case.
C10_AscendingByCodePoint ==
  Consolidated =>
    \A i \in 1..(Len(consolidated_products) - 1) :
      ~StrLess(consolidated_products[i + 1].descricao,
               consolidated_products[i].descricao)

\* "B" placed before "a b": an order that only the code-point comparison gives
C10_Witness ==
  /\ Consolidated
  /\ PositiveInput
  /\ \E i \in 1..(Len(consolidated_products) - 1) :
       /\ StrLess(consolidated_products[i].descricao,
                  consolidated_products[i + 1].descricao)
       /\ StrLess(Lower(consolidated_products[i + 1].descricao),
                  Lower(consolidated_products[i].descricao))

(***************************************************************************)
(* Vocabulary of the properties of process_files                           *)
(***************************************************************************)
Returned == pc \in {"returned", "answered"}

\* the files the loop has been through
Done == SubSeq(file_paths, 1, next_file - 1)

\* the file reaches the line that counts it as processed
Succeeds(file) == Extraction(file) = "text" /\ file.ai = "responds"

(***************************************************************************)
(* C11                                                                     *)
(***************************************************************************)
\* C11: the run fails at batch level exactly when no product was extracted
\* from any file: process_files then returns no report, and upload_files
\* answers with a failure instead of a success with an empty product list.
C11_EmptyRunFails ==
  file_paths # <<>> =>
  /\ Returned =>
       (results = <<>> <=> processing_info.extracted_products = 0)
  /\ pc = "answered" =>
       (upload_response # 200 <=> processing_info.extracted_products = 0)

(***************************************************************************)
(* C12                                                                     *)
(***************************************************************************)
\* C12: every file is accounted for exactly once: processed_files is the
\* number of files that were extracted and answered, failed_files names the
\* others in order, a failed file is not counted as processed and does not
\* stop the loop, and on return processed_files + len(failed_files) =
\* total_files = the number of input paths.
C12_EveryFileAccountedOnce ==
  pc \in {"loop", "returned", "answered"} =>
    LET failed == SelectSeq(Done, LAMBDA f : ~Succeeds(f))
        names == [i \in 1..Len(processing_info.failed_files) |->
                    processing_info.failed_files[i].file]
    IN  /\ processing_info.processed_files = Len(SelectSeq(Done, Succeeds))
        /\ names = [i \in 1..Len(failed) |-> Basename(failed[i].path)]
        /\ processing_info.total_files = Len(file_paths)
        /\ Returned =>
             /\ next_file = Len(file_paths) + 1
             /\ processing_info.processed_files
                  + Len(processing_info.failed_files)
                  = processing_info.total_files

\* three files, the first fails extraction, the two after it give products
C12_Witness ==
  /\ Returned
  /\ Len(file_paths) = 3
  /\ Extraction(file_paths[1]) = "raises"
  /\ processing_info.processed_files = 2
  /\ Len(processing_info.failed_files) = 1
  /\ processing_info.extracted_products >= 2
  /\ results # <<>>
  /\ results[1].products # <<>>

(***************************************************************************)
(* C13                                                                     *)
(***************************************************************************)
\* C13: for every input in which no {...} span is found (HTML, error text)
\* the sanitizer returns exactly the text '{"produtos": []}'.
C13_NoSpanGivesEmptyResult ==
  (pc = "cleaned" /\ ai_response.text # <<>>
                  /\ BraceSpan(ai_response.text) = <<>>) =>
     cleaned_response = EmptyResult

(***************************************************************************)
(* C14                                                                     *)
(***************************************************************************)
\* the response is no str, or its text holds no 'produtos' list: prose, HTML,
\* a number, an object without the key or with another value under it
HasNoProdutosList(response) ==
  \/ response.kind # "string"
  \/ \A i \in 1..Len(response.text) : response.text[i] \notin {"P", "E"}

\* the file was extracted and answered with a response without a list
Malformed(file) == Succeeds(file) /\ HasNoProdutosList(file.response)

\* C14: a malformed response is never a hard failure: _parse_ai_response
\* raises nothing and returns the empty list for it, and process_files counts
\* the file as processed, with no product, and not as failed.
C14_MalformedIsProcessedEmpty ==
  pc \in {"loop", "returned", "answered"} =>
    \* the malformed ones are among the processed, none among the failed
    /\ processing_info.processed_files = Len(SelectSeq(Done, Succeeds))
    /\ Len(processing_info.failed_files)
         = Len(SelectSeq(Done, LAMBDA f : ~Succeeds(f)))
    \* they add no product
    /\ (\A i \in 1..Len(Done) : Succeeds(Done[i]) => Malformed(Done[i])) =>
         /\ processing_info.extracted_products = 0
         /\ all_products = <<>>
    \* what _parse_ai_response gave for the file the loop has just been through
    /\ (Done # <<>> /\ Malformed(Done[Len(Done)])) =>
         /\ parsed_products.raised = ""
         /\ parsed_products.value = <<>>

\* a batch of a None response, prose and an object without 'produtos', all
\* counted as processed
C14_Witness ==
  /\ Returned
  /\ Len(file_paths) = 3
  /\ \A i \in 1..3 : Malformed(file_paths[i])
  /\ file_paths[1].response.kind # "string"
  /\ file_paths[2].response.text = <<"x">>
  /\ file_paths[3].response.text = <<"{", "Q", "}">>
  /\ processing_info.processed_files = 3
  /\ processing_info.failed_files = <<>>
  /\ processing_info.extracted_products = 0

(***************************************************************************)
(* C15                                                                     *)
(***************************************************************************)
\* one JSON object: an opening brace, a closing brace, no brace between them
OneObject(text) ==
  /\ Len(text) >= 2
  /\ text[1] = "{"
  /\ text[Len(text)] = "}"
  /\ \A i \in 2..(Len(text) - 1) : text[i] \notin {"{", "}"}

BlankDescricao(product_data) ==
  \/ product_data.descricao.kind \in {"absent", "null"}
  \/ /\ product_data.descricao.kind = "string"
     /\ \A i \in 1..Len(product_data.descricao.string) :
           product_data.descricao.string[i] = " "

\* the most products a file can add: the objects of its list without those
\* of a blank descricao
Countable(file) ==
  IF Succeeds(file) /\ ~HasNoProdutosList(file.response)
  THEN Len(SelectSeq(file.response.produtos, LAMBDA p : ~BlankDescricao(p)))
  ELSE 0

RECURSIVE SumCountable(_)
SumCountable(files) ==
  IF files = <<>> THEN 0 ELSE Countable(Head(files)) + SumCountable(Tail(files))

\* C16: a raw product whose descricao is missing, null, empty or only
\* whitespace gives no record: it is not in the list _parse_ai_response
\* returns for the file, and it is not counted in extracted_products.
C16_BlankDescricaoNotCounted ==
  pc \in {"loop", "returned", "answered"} =>
    /\ processing_info.extracted_products <= SumCountable(Done)
    /\ processing_info.extracted_products = Len(all_products)
    /\ \A i \in 1..Len(all_products) :
          \E j \in 1..Len(all_products[i].descricao) :
             all_products[i].descricao[j] # " "
    /\ (Done # <<>> /\ Countable(Done[Len(Done)]) = 0 /\ Succeeds(Done[Len(Done)])) =>
          parsed_products.value = <<>>

\* a file answered with one product that has a codigo and a descricao of one
\* space: processed, no product
C16_Witness ==
  /\ Returned
  /\ Len(file_paths) = 1
  /\ Succeeds(file_paths[1])
  /\ file_paths[1].response.text = <<"{", "P", "}">>
  /\ Len(file_paths[1].response.produtos) = 1
  /\ file_paths[1].response.produtos[1].descricao = JsonString(<<" ">>)
  /\ file_paths[1].response.produtos[1].codigo = JsonString(<<"P">>)
  /\ processing_info.processed_files = 1
  /\ processing_info.extracted_products = 0
  /\ parsed_products.value = <<>>

(***************************************************************************)
(* Vocabulary of the properties of the normalizer                          *)
(***************************************************************************)
\* _parse_ai_response has been through the response {"produtos": [one object]}
ParsedOne ==
  /\ pc = "parsed"
  /\ ai_response.kind = "string"
  /\ ai_response.text = <<"{", "P", "}">>
  /\ Len(ai_response.produtos) = 1

Raw == ai_response.produtos[1]

Normalized == parsed_products.value[1]

\* t = q * u as exact values, t in lowest terms
IsTimes(t, q, u) == t = Fraction(q.num * u.num, q.den * u.den)

(***************************************************************************)
(* C17                                                                     *)
(***************************************************************************)
\* C17: with q, u, t the three values as parsed: if t is zero and q > 0 and
\* u > 0 the record's valor_total is q * u; else if u is zero and q > 0 and
\* t > 0 its valor_unitario is t / q; in every other case the three values
\* are the parsed ones; nothing is divided by a zero quantidade.
C17_DerivesMissingValue ==
  (ParsedOne /\ parsed_products.value # <<>>) =>
    LET q == _parse_numeric_value(Raw.quantidade)
        u == _parse_numeric_value(Raw.valor_unitario)
        t == _parse_numeric_value(Raw.valor_total)
    IN  /\ Normalized.quantidade = q
        /\ Normalized.valor_unitario.den > 0
        /\ Normalized.valor_total.den > 0
        /\ IF t.num = 0 /\ q.num > 0 /\ u.num > 0
           THEN /\ Normalized.valor_unitario = u
                /\ IsTimes(Normalized.valor_total, q, u)
           ELSE IF u.num = 0 /\ q.num > 0 /\ t.num > 0
           THEN /\ Normalized.valor_total = t
                /\ IsTimes(t, q, Normalized.valor_unitario)
           ELSE /\ Normalized.valor_unitario = u
                /\ Normalized.valor_total = t

\* quantidade 2 and valor_unitario 3 without a total give the total 6
C17_Witness ==
  /\ ParsedOne
  /\ Raw.quantidade = JsonNumber(2, 1)
  /\ Raw.valor_unitario = JsonNumber(3, 1)
  /\ Raw.valor_total = Absent
  /\ parsed_products.value # <<>>
  /\ Normalized.valor_total = Fraction(6, 1)

(***************************************************************************)
(* C18                                                                     *)
(***************************************************************************)
\* the response is a valid JSON object whose 'produtos' list holds objects
\* with non-blank string descriptions that differ pairwise
DistinctDescribedProducts ==
  /\ ai_response.kind = "string"
  /\ ai_response.text = <<"{", "P", "}">>
  /\ \A i \in 1..Len(ai_response.produtos) :
        /\ ai_response.produtos[i].is_dict
        /\ ai_response.produtos[i].descricao.kind = "string"
        /\ ~BlankDescricao(ai_response.produtos[i])
  /\ \A i, j \in 1..Len(ai_response.produtos) :
        i # j => Strip(ai_response.produtos[i].descricao.string)
                   # Strip(ai_response.produtos[j].descricao.string)

\* the three numbers of every product are JSON numbers, positive, the total
\* being quantity times unit price
ConsistentNumbers ==
  \A i \in 1..Len(ai_response.produtos) :
     LET p == ai_response.produtos[i]
     IN  /\ p.quantidade.kind = "number" /\ p.quantidade.number.num > 0
         /\ p.valor_unitario.kind = "number" /\ p.valor_unitario.number.num > 0
         /\ p.valor_total.kind = "number"
         /\ IsTimes(p.valor_total.number, p.quantidade.number, p.valor_unitario.number)

\* C18: a valid response of N products with non-blank, pairwise distinct
\* descriptions gives exactly N records, each with valor_total = quantidade *
\* valor_unitario.  (Stated for products whose supplied numbers are
\* consistent, so that no refutation rests on the numbers.)
C18_EveryProductBecomesARecord ==
  (pc = "parsed" /\ DistinctDescribedProducts /\ ConsistentNumbers) =>
     /\ Len(parsed_products.value) = Len(ai_response.produtos)
     /\ \A i \in 1..Len(parsed_products.value) :
           IsTimes(parsed_products.value[i].valor_total,
                   parsed_products.value[i].quantidade,
                   parsed_products.value[i].valor_unitario)

(***************************************************************************)
(* C19                                                                     *)
(***************************************************************************)
\* C19: every normalized record has quantidade >= 0, whatever the raw
\* quantity is.
C19_QuantidadeNonNegative ==
  pc = "parsed" =>
    \A i \in 1..Len(parsed_products.value) :
       parsed_products.value[i].quantidade.num >= 0

(***************************************************************************)
(* C20                                                                     *)
(***************************************************************************)
\* a string of digits with at most one "." between them, as "100" and "10.5"
PlainDecimal(s) ==
  /\ s # <<>>
  /\ IsDigit(s[1])
  /\ IsDigit(s[Len(s)])
  /\ \A i \in 1..Len(s) : IsDigit(s[i]) \/ s[i] = "."
  /\ Cardinality({i \in 1..Len(s) : s[i] = "."}) <= 1

RECURSIVE PowerOfTen(_)
PowerOfTen(n) == IF n = 0 THEN 1 ELSE 10 * PowerOfTen(n - 1)

\* the number a plain decimal denotes
PlainValue(s) ==
  LET dots == {i \in 1..Len(s) : s[i] = "."}
      decimals == IF dots = {} THEN 0 ELSE Len(s) - (CHOOSE i \in dots : TRUE)
  IN  Fraction(DigitsValue(SelectSeq(s, IsDigit)), PowerOfTen(decimals))

\* C20: a number is returned as itself, a string with a decimal comma is
\* taken in minor units (its digits divided by 100), and a plain decimal
\* string is parsed as the number it denotes ("100" is 100, "10.5" is 10.5).
C20_DividesOnlyCommaDecimal ==
  (ParsedOne /\ parsed_products.value # <<>>) =>
    LET value == Raw.quantidade
        hasComma == \E i \in 1..Len(value.string) : value.string[i] = ","
    IN  /\ value.kind = "number" => Normalized.quantidade = value.number
        /\ (value.kind = "string" /\ hasComma) =>
              Normalized.quantidade =
                Fraction(DigitsValue(SelectSeq(value.string, IsDigit)), 100)
        /\ (value.kind = "string" /\ PlainDecimal(value.string)) =>
              Normalized.quantidade = PlainValue(value.string)

(***************************************************************************)
(* C21                                                                     *)
(***************************************************************************)
\* what a provider's exception of this text reports
FailureKind(message) ==
  CASE message = "insufficient_quota" -> "quota"
    [] message = "credit balance is too low" -> "credit"
    [] message = "invalid_api_key" -> "authentication"
    [] OTHER -> "other"

\* the file processed last
LastFile == file_paths[next_file - 1]

\* the newest entry of failed_files
LastFailure ==
  processing_info.failed_files[Len(processing_info.failed_files)]

\* C21: when the provider call for a file fails with a quota, credit or
\* authentication error, the file's failed_files entry carries the contact
\* message instead of the raw exception string, the file contributes no
\* products, and the loop goes on to the next file.
C21_ProviderFailureIsClassified ==
  (/\ pc = "loop"
   /\ next_file > 1
   /\ Extraction(LastFile) = "text"
   /\ LastFile.ai = "raises"
   /\ FailureKind(LastFile.error) \in {"quota", "credit", "authentication"})
  => /\ processing_info.failed_files # <<>>
     /\ LastFailure.file = Basename(LastFile.path)
     /\ LastFailure.error = ContactMessage
     /\ LastFailure.error # LastFile.error

(***************************************************************************)
(* C22                                                                     *)
(***************************************************************************)
\* the files whose extraction returned text that is not blank
WithText(file) == Extraction(file) = "text"

\* C22: for a file whose extracted text is empty or whitespace-only the AI
\* client is not called (the client has been called once for each file with
\* text and for no other), the file is recorded in failed_files with the
\* no-text reason, processed_files is not incremented for it, and the loop
\* goes on to the next file (the files after it are called and counted).
C22_BlankTextSkipsClient ==
  pc \in {"loop", "returned", "answered"} =>
    /\ ai_calls = Len(SelectSeq(Done, WithText))
    /\ (next_file > 1 /\ Extraction(LastFile) = "blank") =>
         /\ processing_info.failed_files # <<>>
         /\ LastFailure = [file |-> Basename(LastFile.path),
                           error |-> "Texto nao encontrado no arquivo"]
         /\ processing_info.processed_files =
              Len(SelectSeq(SubSeq(file_paths, 1, next_file - 2), Succeeds))
         /\ next_file <= Len(file_paths) + 1

\* a blank file between two files that give products: one failure, two
\* files processed, two calls of the client
C22_Witness ==
  /\ Returned
  /\ Len(file_paths) = 3
  /\ Extraction(file_paths[1]) = "text"
  /\ Extraction(file_paths[2]) = "blank"
  /\ Succeeds(file_paths[3])
  /\ ai_calls = 2
  /\ processing_info.processed_files = 2
  /\ Len(processing_info.failed_files) = 1

(***************************************************************************)
(* C23                                                                     *)
(***************************************************************************)
\* the number of records _parse_ai_response returns for the files of a
\* list that were extracted and answered
RECURSIVE RecordsFrom(_)
RecordsFrom(files) ==
  IF files = <<>> THEN 0
  ELSE (IF Succeeds(Head(files))
        THEN Len(_parse_ai_response(Head(files).response, Head(files).path).value)
        ELSE 0)
       + RecordsFrom(Tail(files))

\* C23: in every report returned by process_files total_products is the
\* number of records in 'products', total_value is the sum of valor_total
\* over 'products', processing_info.extracted_products is the number of
\* normalized records collected from all files before consolidation, and
\* total_products <= extracted_products.
C23_ReportTotals ==
  Returned =>
    /\ results # <<>>
    /\ LET report == results[1]
       IN  /\ report.products = consolidated_products
           /\ report.total_products = Len(report.products)
           /\ report.total_value = SumValorTotal(report.products)
           /\ report.processing_info.extracted_products = Len(all_products)
           /\ report.processing_info.extracted_products = RecordsFrom(file_paths)
           /\ report.total_products <= report.processing_info.extracted_products

\* a report of two records made of three collected ones
C23_Witness ==
  /\ Returned
  /\ results # <<>>
  /\ results[1].total_products = 2
  /\ results[1].processing_info.extracted_products = 3
  /\ results[1].total_value > 0

(***************************************************************************)
(* C24                                                                     *)
(***************************************************************************)
\* C24: consolidating an empty list of records returns an empty list, and
\* process_files on a batch that produced no records returns a report with
\* no products, total_products = 0 and total_value = 0.
C24_EmptyConsolidation ==
  /\ _consolidate_products(<<>>) = <<>>
  /\ (Returned /\ all_products = <<>>) =>
       /\ results # <<>>
       /\ results[1].products = <<>>
       /\ results[1].total_products = 0
       /\ results[1].total_value = 0
       /\ results[1].processing_info.extracted_products = 0

\* a batch of two files, both called and answered, that gave no record
C24_Witness ==
  /\ Returned
  /\ all_products = <<>>
  /\ Len(file_paths) = 2
  /\ processing_info.processed_files = 2
  /\ results # <<>>
  /\ results[1].products = <<>>

(***************************************************************************)
(* C25                                                                     *)
(***************************************************************************)
\* the position at which the brace opened at position i - 1 closes, with
\* depth braces open before position i; 0 when it does not close
RECURSIVE ClosingPosition(_, _, _)
ClosingPosition(s, i, depth) ==
  IF i > Len(s) THEN 0
  ELSE IF s[i] = "{" THEN ClosingPosition(s, i + 1, depth + 1)
  ELSE IF s[i] = "}"
       THEN IF depth = 1 THEN i ELSE ClosingPosition(s, i + 1, depth - 1)
  ELSE ClosingPosition(s, i + 1, depth)

\* the first balanced {...} span of s, <<>> when s has none
FirstBalancedSpan(s) ==
  LET opens == {i \in 1..Len(s) : s[i] = "{" /\ ClosingPosition(s, i + 1, 1) # 0}
  IN  IF opens = {} THEN <<>>
      ELSE LET first == CHOOSE i \in opens : \A j \in opens : i <= j
           IN  SubSeq(s, first, ClosingPosition(s, first + 1, 1))

\* the response without its fence markers
Unfenced == RemoveMarker(RemoveMarker(ai_response.text, JsonFence), Fence)

\* C25: after stripping the fence markers the sanitizer returns the first
\* balanced {...} span of the text: for a complete JSON object followed by
\* more text that contains braces the result is the first object only, and
\* is parseable JSON, not the span from the first '{' to the last '}'.
C25_FirstBalancedSpan ==
  (/\ pc = "cleaned"
   /\ ai_response.kind = "string"
   /\ FirstBalancedSpan(Unfenced) # <<>>
   /\ ~JsonLoads(FirstBalancedSpan(Unfenced)).error)
  => /\ cleaned_response = FirstBalancedSpan(Unfenced)
     /\ ~JsonLoads(cleaned_response).error

(***************************************************************************)
(* C26                                                                     *)
(***************************************************************************)
\* the files for which OCR is to be attempted: every image, and every PDF
\* whose embedded text cannot be read or is empty or whitespace-only
NeedsOcr(file) ==
  \/ file.format = "image"
  \/ file.format = "pdf" /\ file.embedded \in {"raises", "blank"}

\* C26: for a PDF, whenever embedded-text extraction yields no usable text
\* (an empty or whitespace-only result, or an exception), the OCR fallback
\* is attempted on the file before the file is recorded as failed with the
\* no-text reason: OCR has been attempted once for every file done that
\* needs it.
C26_OcrFallbackOnBlankPdf ==
  pc \in {"loop", "returned", "answered"} =>
    ocr_calls = Len(SelectSeq(Done, NeedsOcr))

C28_InputNotModified ==
  [][/\ all_products' = all_products
     /\ pc = "collected" =>
          /\ InputAfter(all_products) = all_products
          /\ consolidated_products' =
               SortByDescricao(ValuesOnHeap(all_products))]_vars

\* a consolidation in which the first record of the input was merged with a
\* later one: the result has another quantidade than the input record
C28_Witness ==
  /\ Consolidated
  /\ Len(all_products) >= 2
  /\ Len(GroupOf(all_products[1])) >= 2
  /\ \E i \in Outputs :
       /\ _generate_product_key(consolidated_products[i]) =
            _generate_product_key(all_products[1])
       /\ consolidated_products[i].quantidade # all_products[1].quantidade

(***************************************************************************)
(* C29                                                                     *)
(***************************************************************************)
\* the models ADDITIONAL_MODELS adds to a provider
RECURSIVE AddedModels(_, _)
AddedModels(items, provider) ==
  IF items = <<>> THEN <<>>
  ELSE (IF Head(items).provider = provider /\ Head(items).is_dict
        THEN Head(items).models ELSE <<>>)
       \o AddedModels(Tail(items), provider)

\* no model occurs twice in the list
NoDuplicates(list) ==
  \A i, j \in 1..Len(list) : list[i] = list[j] => i = j

\* C29: constructing AIProviderManager any number of times, with any
\* ADDITIONAL_MODELS setting, leaves Config.AI_MODELS unchanged, and
\* get_models(provider) returns the same list, without accumulated
\* duplicates, after the first construction and after every later one: the
\* models of Config.AI_MODELS followed by those the setting adds.
C29_ConfigIsReadOnly ==
  /\ AI_MODELS = ConfigAiModels
  /\ \A i \in 1..Len(managers), provider \in DOMAIN ConfigAiModels :
       /\ NoDuplicates(get_models(managers[i], provider).value)
       /\ ADDITIONAL_MODELS.valid =>
            get_models(managers[i], provider).value =
              ConfigAiModels[provider]
                \o AddedModels(ADDITIONAL_MODELS.items, provider)

(***************************************************************************)
(* C30                                                                     *)
(***************************************************************************)
\* C30: session cleanup is confined to its own session: in any interleaving
\* of two sessions, running cleanup for one removes only entries of that
\* session, and leaves the other's session file, its reports and its
\* temporary upload directory in place, also while the upload of the other
\* is still being processed.
C30_CleanupConfined ==
  [][\A a \in SessionIds :
       Cleanup(a) => \A e \in temp_folder : e.id # a => e \in temp_folder']_vars

====
